---- MODULE Spec2Model ----
(***************************************************************************)
(* Model of bot.py (GitButler): the persisted update cursor, the intake    *)
(* function fetch_new_messages, the continuous_mode loop and the single    *)
(* mode of main, process_message, the session cache with start_session     *)
(* and end_session, main itself, and two runs racing on the same state     *)
(* file.                                                                   *)
(***************************************************************************)
EXTENDS Integers, Sequences, FiniteSets, TLC

\* ---------------------------------------------------------------- bounds
\* update ids the transport or the cache can carry (0 = "update_id" missing)
MaxId == 2
\* saturation of the invocation counter watched_calls (history only)
MaxCount == 2
\* idle cycles before auto-sleep: stands for the 180 of bot.py:658, scaled
\* down so that the auto-sleep transition is reached within the bound
max_idle_cycles == 2
\* the attempt budget of one drain pass: stands for the 100 of the drain
\* loop, scaled down
max_attempts == 2
\* the longest outbound queue: one more than the budget can deliver
MaxQueue == max_attempts + 1

\* ---------------------------------------------------------------- values
UpdateIds == 0..MaxId
\* chat.id as the transport sends it; NoChat stands for a missing "id"
NoChat == 0
RawChats == {NoChat, 7, 8}
\* message.text; "" stands for a missing or empty text
Texts == {"", "hi", "stop", "start", "status", " Stop"}
\* single mode treats every non-empty text alike
CacheTexts == {"", "hi"}
Modes == {"unset", "active", "idle", "stopped"}
\* last_run_time: absent, the stamp of ensure_files, a stamp written later
RunTimes == {"unset", "t0", "t1"}
\* what is wrong with the state file or with its last_update_id value:
\* no file, not JSON, or a last_update_id that is absent, a string, null,
\* a float, or a JSON boolean (true is held as 1, false as 0)
Damages == {"none", "missing", "invalid_json", "absent", "str", "null",
            "float", "true", "false"}

\* str(chat.get("id", ""))
Str(c) == CASE c = 7 -> "7" [] c = 8 -> "8" [] OTHER -> ""

\* text.lower().strip() on the texts of the model
LowerStrip(t) == CASE t = " Stop" -> "stop" [] OTHER -> t

Updates == [update_id : UpdateIds, chat : RawChats, text : Texts]
CacheUpdates == [update_id : UpdateIds, chat : RawChats, text : CacheTexts]

\* the decoded getUpdates response: requests.get raised, ok is false, or
\* ok with result holding no update or one (limit=1; only updates[0] is read)
Responses ==
  [status : {"exception", "not_ok"}, result : {<<>>}]
    \cup [status : {"ok"}, result : {<<>>} \cup {<<u>> : u \in Updates}]

NoData == [status |-> "none", result |-> <<>>]

\* the cache file of check_updates.sh: absent, unreadable, or a response
CacheAbsent == [status |-> "absent", result |-> <<>>]
CacheUnreadable == [status |-> "unreadable", result |-> <<>>]
CacheContents ==
  {CacheAbsent, CacheUnreadable}
    \cup [status : {"not_ok"}, result : {<<>>}]
    \cup [status : {"ok"}, result : {<<>>} \cup {<<u>> : u \in CacheUpdates}]

\* what fetch_new_messages returns when it returns no message
None == [update_id |-> -1, message_id |-> -1, text |-> "", chat_id |-> ""]

\* line 279, message.get("message_id", 0): Telegram numbers messages from 1;
\* the model gives the message of update n the id n + 1
MessageId(update) == update.update_id + 1

Max(a, b) == IF a >= b THEN a ELSE b
Min(a, b) == IF a <= b THEN a ELSE b

VARIABLES
  TELEGRAM_TOKEN,    \* BOOLEAN: the token is configured
  TELEGRAM_CHAT_ID,  \* "" when unset, else the allowed chat
  disk_ok,           \* environment: writing the state file succeeds
  OPENAI_API_KEY,    \* whether the OpenAI key is set
  llm,               \* environment: what the chat completion call does
  post_ok,           \* environment: sendMessage is answered with a 2xx
  git,               \* environment: what the git commands do
  proc,              \* what the handling of the last fetch did: calls made
  outgoing,          \* the outbound queue
  d_pc,              \* where the drain of the outbound queue is
  attempts,          \* delivery attempts of the current drain pass
  delivered,         \* the items the transport acknowledged, in order
  queued,            \* the queue as it was when the drain pass began
  transport,         \* environment: how sendMessage behaves during a drain
  drain_caller,      \* which loop drains: drain(queue), or the loop of the
                     \* tests around send_outgoing_messages
  state_file,        \* storage/state.json
  cache_file,        \* /tmp/gitbutler/telegram_updates.json
  pc,                \* position of the run
  state,             \* continuous_mode's local state dict (line 666)
  idle_counter,      \* continuous_mode's local
  last_update_id,    \* fetch_new_messages' local (line 207) of the last fetch
  data,              \* the response the last fetch decoded
  used_cache,        \* fetch_new_messages' local of the last fetch
  message,           \* what the last fetch returned
  fetch_raised,      \* the last fetch let an exception out
  request,           \* the last fetch: its argument and its getUpdates call
  environ_chat_id,   \* os.environ["TELEGRAM_CHAT_ID"] when the fetch set it
  max_live,          \* history: highest update_id a live fetch returned before
  watched,           \* an arbitrary update_id, fixed at the start
  watched_calls,     \* history: process_message calls of the loop for it
  watched_stopped,   \* history: the watched update was ignored while stopped
  watched_skipped,   \* history: process_message got the watched update
                     \* while no OpenAI key was set
  SESSION_CACHE,     \* the module-level session cache (lines 51-56)
  session_log,       \* history: the last start_session or end_session call
  m_pc,              \* position of main ("off": main is not running)
  run_mode,          \* RUN_MODE as main read it
  exit_status,       \* the exit status of the last run of main
  end_calls,         \* history: end_session calls of this run of main
  single_run,        \* history: fetches and process_message calls of the
                     \* single-mode body in this run
  r_pc, r_state, r_data, r_message   \* the two racing runs' fetch locals

vars == <<TELEGRAM_TOKEN, TELEGRAM_CHAT_ID, disk_ok, OPENAI_API_KEY, llm,
          post_ok, git, proc, outgoing, d_pc, attempts, delivered, queued,
          transport, drain_caller, state_file, cache_file,
          pc, state, idle_counter, last_update_id, data, used_cache, message,
          fetch_raised, request, environ_chat_id, max_live, watched,
          watched_calls, watched_stopped, watched_skipped, SESSION_CACHE,
          session_log, m_pc, run_mode, exit_status, end_calls, single_run,
          r_pc, r_state, r_data, r_message>>

config == <<TELEGRAM_TOKEN, TELEGRAM_CHAT_ID, disk_ok, OPENAI_API_KEY, llm,
            post_ok, git, watched>>
drainvars == <<outgoing, d_pc, attempts, delivered, queued, transport,
               drain_caller>>
fetchvars == <<last_update_id, data, used_cache, message, fetch_raised,
               request, environ_chat_id>>
parvars == <<r_pc, r_state, r_data, r_message>>
\* the variables of the bot proper, which a drain leaves alone
botvars == <<config, parvars, fetchvars, proc, state_file, cache_file, pc,
             state, idle_counter, max_live, watched_calls, watched_stopped>>
\* the same without the configuration
botvars_but_config ==
  <<parvars, fetchvars, proc, state_file, cache_file, pc, state,
    idle_counter, max_live, watched_calls, watched_stopped>>
\* what only main, start_session and end_session change
runvars == <<session_log, run_mode, exit_status, end_calls>>
mainvars == <<runvars, SESSION_CACHE, m_pc, single_run, watched_skipped>>

Runs == {1, 2}

\* ensure_files: the state file of a first run
InitialState ==
  [last_update_id |-> 0, mode |-> "unset", last_run_time |-> "t0",
   session_keys |-> FALSE, damage |-> "none"]

\* the default of read_json(STATE_PATH, {"last_update_id": 0})
DefaultState ==
  [last_update_id |-> 0, mode |-> "unset", last_run_time |-> "unset",
   session_keys |-> FALSE, damage |-> "none"]

\* lines 102-110: a missing or unparsable file yields the default
read_json(file, default) ==
  IF file.damage \in {"missing", "invalid_json"} THEN default ELSE file

\* lines 113-118: the write error is logged and swallowed
write_json(file, d) == IF disk_ok THEN d ELSE file

write_state_raw(file, d) == write_json(file, d)

\* lines 121-126: the session-only keys are dropped, then the file is written
write_state(file, d) == write_json(file, [d EXCEPT !.session_keys = FALSE])

\* state["last_update_id"] = update_id
SetCursor(st, update_id) ==
  [st EXCEPT !.last_update_id = update_id, !.damage = "none"]

\* lines 207-212: state.get("last_update_id", 0), reset to 0 unless
\* isinstance(last_update_id, int); a bool is an int in Python
LoadCursor(st) ==
  IF st.damage \in {"absent", "str", "null", "float"} THEN 0
  ELSE st.last_update_id

\* ------------------------------------------------- fetch_new_messages
\* the allow-list test left out
AllowedChat_adopted ==
  IF TELEGRAM_CHAT_ID # "" THEN TELEGRAM_CHAT_ID ELSE environ_chat_id

\* line 271 tests the module-level TELEGRAM_CHAT_ID, read once at import
AllowedChat == TELEGRAM_CHAT_ID

ChatRejected_off(cached, chat_id) == FALSE

\* line 271: the allow-list test, made only for a live response
ChatRejected(cached, chat_id) ==
  /\ ~cached
  /\ AllowedChat # ""
  /\ chat_id # AllowedChat

\* lines 264-267: with no TELEGRAM_CHAT_ID the chat of the update, when it
\* has one, is put in os.environ; prev is what os.environ held
Environ(prev, d) ==
  IF /\ d.status = "ok"
     /\ d.result # <<>>
     /\ TELEGRAM_CHAT_ID = ""
     /\ Str(d.result[1].chat) # ""
  THEN Str(d.result[1].chat)
  ELSE prev

\* no getUpdates call was made
NoRequest(use_cached) ==
  [use_cached |-> use_cached, sent |-> FALSE, offset |-> 0, limit |-> 0]

Offset_same(cursor) == cursor

\* line 238: "offset": last_update_id + 1
Offset(cursor) == cursor + 1

\* lines 236-244: the getUpdates call
GetUpdates(use_cached, cursor) ==
  [use_cached |-> use_cached, sent |-> TRUE, offset |-> Offset(cursor),
   limit |-> 1]

\* lines 274-275
RejectChat(st, update_id) == SetCursor(st, update_id)

\* the cursor write left to the processing step
AcceptText_deferred(st, update_id) == st

\* lines 285-286
AcceptText(st, update_id) == SetCursor(st, update_id)

\* the cursor write of the non-text branch forgotten
SkipNonText_forgotten(st, update_id) == st

\* lines 298-299
SkipNonText(st, update_id) == SetCursor(st, update_id)

NoCredentials_reset(st) ==
  [message |-> None, wrote |-> TRUE, state |-> DefaultState,
   raised |-> FALSE]

\* lines 228-230: no cached data and no token; None before any request
NoCredentials(st) ==
  [message |-> None, wrote |-> FALSE, state |-> st, raised |-> FALSE]

\* lines 302-304: requests.get or raise_for_status raised; logged, None
FetchFailed_fatal(st) ==
  [message |-> None, wrote |-> FALSE, state |-> st, raised |-> TRUE]

FetchFailed(st) ==
  [message |-> None, wrote |-> FALSE, state |-> st, raised |-> FALSE]

\* lines 248-250: the response says ok = false; logged, None
ApiError(st) ==
  [message |-> None, wrote |-> FALSE, state |-> st, raised |-> FALSE]

\* lines 252-255: no update in the result
NoUpdates_reset(st) ==
  [message |-> None, wrote |-> TRUE, state |-> SetCursor(st, 0),
   raised |-> FALSE]

NoUpdates(st) ==
  [message |-> None, wrote |-> FALSE, state |-> st, raised |-> FALSE]

\* lines 248-300: the decision on a decoded response d, st being the state
\* dict read at line 206.  wrote says whether write_state was called.
Decide(st, d, cached) ==
  IF d.status = "exception" THEN FetchFailed(st)
  ELSE IF d.status # "ok" THEN ApiError(st)
  ELSE IF d.result = <<>> THEN NoUpdates(st)
  ELSE LET update == d.result[1]
           update_id == update.update_id
           chat_id == Str(update.chat)
           text == update.text
       IN  IF ChatRejected(cached, chat_id)
           THEN [message |-> None, wrote |-> TRUE,
                 state |-> RejectChat(st, update_id), raised |-> FALSE]
           ELSE IF text # ""
           THEN [message |-> [update_id |-> update_id,
                              message_id |-> MessageId(update),
                              text |-> text, chat_id |-> chat_id],
                 wrote |-> TRUE, state |-> AcceptText(st, update_id),
                 raised |-> FALSE]
           ELSE [message |-> None, wrote |-> TRUE,
                 state |-> SkipNonText(st, update_id), raised |-> FALSE]

CacheUsed_with_token(use_cached) ==
  /\ use_cached
  /\ TELEGRAM_TOKEN
  /\ cache_file.status \notin {"absent", "unreadable"}

\* lines 217-225: the cache is used when requested, present and readable
CacheUsed(use_cached) ==
  use_cached /\ cache_file.status \notin {"absent", "unreadable"}

\* lines 236-246: what requests.get can yield for this offset; the transport
\* answers getUpdates(offset) with updates whose update_id >= offset
LiveResponses(offset) ==
  {d \in Responses : d.result # <<>> => d.result[1].update_id >= offset}

\* lines 204-304, one whole call: reads the state file, takes the cache or
\* one transport response, decides, writes the state file
Fetch(use_cached) ==
  LET st == read_json(state_file, DefaultState)
      \* a single-mode run is a new process: os.environ is as configured
      environ == IF pc = "off" THEN "" ELSE environ_chat_id
  IN  /\ last_update_id' = LoadCursor(st)
      /\ IF CacheUsed(use_cached)
         THEN LET out == Decide(st, cache_file, TRUE)
              IN  /\ data' = cache_file
                  /\ used_cache' = TRUE
                  /\ request' = NoRequest(use_cached)
                  /\ environ_chat_id' = Environ(environ, cache_file)
                  /\ message' = out.message
                  /\ fetch_raised' = out.raised
                  /\ state_file' = IF out.wrote
                                   THEN write_state(state_file, out.state)
                                   ELSE state_file
         ELSE IF ~TELEGRAM_TOKEN
         THEN LET out == NoCredentials(st)
              IN  /\ data' = NoData
                  /\ used_cache' = FALSE
                  /\ request' = NoRequest(use_cached)
                  /\ environ_chat_id' = environ
                  /\ message' = out.message
                  /\ fetch_raised' = out.raised
                  /\ state_file' = IF out.wrote
                                   THEN write_state(state_file, out.state)
                                   ELSE state_file
         ELSE LET req == GetUpdates(use_cached, LoadCursor(st))
              IN  \E d \in LiveResponses(req.offset) :
                    LET out == Decide(st, d, FALSE)
                    IN  /\ data' = d
                        /\ used_cache' = FALSE
                        /\ request' = req
                        /\ environ_chat_id' = Environ(environ, d)
                        /\ message' = out.message
                        /\ fetch_raised' = out.raised
                        /\ state_file' = IF out.wrote
                                         THEN write_state(state_file,
                                                          out.state)
                                         ELSE state_file

\* ------------------------------------------------------ process_message
\* lines 493-504: the chat completion answers with a text, or the call raises
LlmOutcomes == {"text", "raises"}

\* lines 500-514: the text the call answers with has no action block
\* ("text"), a block that is JSON ("actions"), a block that satisfies the
\* pattern of line 507 and is not JSON, such as {update_memory: true}
\* ("malformed"), or a block the pattern does not match, such as one cut
\* before its closing brace ("unmatched")
Completions == LlmOutcomes \cup {"actions", "malformed", "unmatched"}

\* line 507: re.search finds a fenced block with balanced braces
JsonMatch(r) == r \in {"actions", "malformed"}

\* line 510: json.loads accepts the block
JsonLoads(r) == r = "actions"

\* lines 513-514: the parse error is logged
ParseLogged(r) == JsonMatch(r) /\ ~JsonLoads(r)

\* lines 519-521: handle_actions is called with the decoded block
Actions(r) == JsonMatch(r) /\ JsonLoads(r)

\* lines 162-194: commit and push done, nothing to commit, no git, a git
\* command times out, a git command exits non-zero
GitOutcomes == {"ok", "nochange", "unavailable", "timeout", "fails"}

\* nothing was called yet for the message of the last fetch
NoCall ==
  [called |-> FALSE, path |-> "none", logged |-> FALSE, handled |-> FALSE,
   sends |-> <<>>, publishes |-> 0, published |-> FALSE, raised |-> FALSE]

\* lines 344-382: one call; posted says whether requests.post was called,
\* delivered is the value returned; reply_to 0 stands for no reply_to
send_telegram_message(chat_id, kind, reply_to_message_id) ==
  [chat_id |-> chat_id, kind |-> kind, reply_to |-> reply_to_message_id,
   posted |-> TELEGRAM_TOKEN, delivered |-> TELEGRAM_TOKEN /\ post_ok]

git_commit_push_unguarded(g) ==
  [result |-> g \in {"ok", "nochange"}, raised |-> g \in {"timeout", "fails"}]

\* lines 162-194: every failure is caught and turned into False
git_commit_push(g) ==
  [result |-> g \in {"ok", "nochange"}, raised |-> FALSE]

\* the state dict of read_json(STATE_PATH, {}) when the file gives nothing
EmptyState ==
  [last_update_id |-> 0, mode |-> "unset", last_run_time |-> "unset",
   session_keys |-> FALSE, damage |-> "absent"]

UpdateRunTime_fresh(f) ==
  write_state(f, [EmptyState EXCEPT !.last_run_time = "t1"])

\* lines 523-526 and 540-542: the state file is re-read and written back with
\* a new last_run_time
UpdateRunTime(f) ==
  write_state(f, [read_json(f, EmptyState) EXCEPT !.last_run_time = "t1"])

SuccessPath_unsent(m) ==
  LET pub == git_commit_push(git)
  IN  [called |-> TRUE, path |-> "success", logged |-> ParseLogged(llm),
       handled |-> Actions(llm), sends |-> <<>>,
       publishes |-> 1, published |-> pub.result, raised |-> pub.raised]

\* lines 500-528: the block is parsed, the reply is sent, the actions are
\* handled, the state stamped, the work published
SuccessPath(m) ==
  LET pub == git_commit_push(git)
  IN  [called |-> TRUE, path |-> "success", logged |-> ParseLogged(llm),
       handled |-> Actions(llm),
       sends |-> <<send_telegram_message(m.chat_id, "reply", m.message_id)>>,
       publishes |-> 1, published |-> pub.result, raised |-> pub.raised]

ErrorPath_silent(m) ==
  LET pub == git_commit_push(git)
  IN  [called |-> TRUE, path |-> "error", logged |-> TRUE,
       handled |-> FALSE,
       sends |-> <<>>,
       publishes |-> 1, published |-> pub.result, raised |-> pub.raised]

\* lines 530-543: the error is logged, the failure text sent, the state
\* stamped, the work published
ErrorPath(m) ==
  LET pub == git_commit_push(git)
  IN  [called |-> TRUE, path |-> "error", logged |-> TRUE,
       handled |-> FALSE,
       sends |-> <<send_telegram_message(m.chat_id, "failure", m.message_id)>>,
       publishes |-> 1, published |-> pub.result, raised |-> pub.raised]

\* lines 426-543: what one call does, apart from the state file
process_message(m) ==
  IF ~OPENAI_API_KEY
  THEN [NoCall EXCEPT !.called = TRUE, !.path = "skipped"]
  ELSE IF llm = "raises" THEN ErrorPath(m)
  ELSE SuccessPath(m)

\* lines 426-543: what one call leaves in the state file
ProcessMessageFile(f) == IF ~OPENAI_API_KEY THEN f ELSE UpdateRunTime(f)

\* ---------------------------------------------------------- session cache
\* lines 51-56: SESSION_CACHE of a freshly imported module. messages is
\* len(SESSION_CACHE["messages"]), saturating at MaxCount; the entries, which
\* are only counted, and start_time, which only feeds the text of the
\* notices, are left out
FreshSession ==
  [messages |-> 0, start_notified |-> FALSE, stop_notified |-> FALSE]

\* lines 385-390
record_session_message(s, m) ==
  [s EXCEPT !.messages = Min(MaxCount, @ + 1)]

\* lines 397, 420, 689: SESSION_CACHE["messages"].clear()
ClearMessages(s) == [s EXCEPT !.messages = 0]

\* lines 401, 418: TELEGRAM_TOKEN and TELEGRAM_CHAT_ID
CanNotify == TELEGRAM_TOKEN /\ TELEGRAM_CHAT_ID # ""

StartReturnsEarly_never(s) == FALSE

\* lines 395-396
StartReturnsEarly(s) == s.start_notified

\* lines 393-406: the cache a call of start_session leaves; start_notified is
\* set whether or not the notice could be sent
start_session(s) ==
  IF StartReturnsEarly(s) THEN s
  ELSE [ClearMessages(s) EXCEPT !.stop_notified = FALSE,
                                !.start_notified = TRUE]

\* lines 400-403: the notice that call sends
StartNotice(s) ==
  IF ~StartReturnsEarly(s) /\ CanNotify THEN "start" ELSE "none"

\* lines 409-423: the cache a call of end_session leaves
end_session(s) ==
  IF s.stop_notified THEN s
  ELSE [ClearMessages(s) EXCEPT !.stop_notified = TRUE,
                                !.start_notified = FALSE]

\* lines 411-419: the notice that call sends
StopNotice(s) ==
  IF ~s.stop_notified /\ s.start_notified /\ CanNotify THEN "stop"
  ELSE "none"

\* no start_session or end_session call was made yet
NoSessionCall ==
  [call |-> "none", notice |-> "none", began |-> FALSE, ended |-> FALSE,
   tick |-> FALSE]

\* the history after a call of start_session with cache s: began says that
\* start_session was called since the last end_session, tick flips at
\* every call
LogStart(log, s) ==
  [call |-> "start", notice |-> StartNotice(s), began |-> TRUE,
   ended |-> FALSE, tick |-> ~log.tick]

\* the history after a call of end_session with cache s
LogEnd(log, s) ==
  [call |-> "end", notice |-> StopNotice(s), began |-> FALSE,
   ended |-> TRUE, tick |-> ~log.tick]

\* the single-mode body has not fetched and has not processed
NoSingleRun == [fetches |-> 0, calls |-> 0]

\* lines 682, 691, 733: continuous_mode publishes a mode change
PublishOnly ==
  [NoCall EXCEPT !.publishes = 1, !.published = git_commit_push(git).result,
                 !.raised = git_commit_push(git).raised]

\* main is not running: the function is called by a process of its own
Imported(s) == IF m_pc = "off" THEN FreshSession ELSE s

\* main enters the body of its run mode, and leaves it for its finally
Enter(p) == IF p = "mode" THEN "running" ELSE p
Leave(p) == IF p = "running" THEN "finally" ELSE p

\* history: process_message is called for this message
Skipped(m) == watched_skipped \/ (m.update_id = watched /\ ~OPENAI_API_KEY)

InitMode_missing(st) == st

\* lines 647-648
InitMode(st) == [st EXCEPT !.mode = "active"]

\* line 674: message.get("text", "").lower().strip()
Command_raw(m) == m.text

Command(m) == LowerStrip(m.text)

StopCommands == {"stop", "sleep", "pause"}
StartCommands == {"start", "wake up", "wake"}

\* line 667: mode = state.get("mode", "active")
Mode(st) == IF st.mode = "unset" THEN "active" ELSE st.mode

AckStatus_stale(st, update_id) == st

\* line 706: state["last_update_id"] = message.get("update_id", 0)
AckStatus(st, update_id) == [st EXCEPT !.last_update_id = update_id]

Processes_always(mode) == TRUE

\* line 711: a normal message is processed unless the mode is stopped
Processes(mode) == mode # "stopped"

AutoSleep_any_mode(counter, mode) == counter >= max_idle_cycles

\* line 728: auto-sleep once the counter is at max_idle_cycles, in active
\* mode only
AutoSleep(counter, mode) == counter >= max_idle_cycles /\ mode = "active"

\* --------------------------------------------------------------- actions
\* a fresh process; files is what the state file may hold at that time
InitBot(files) ==
  /\ TELEGRAM_TOKEN \in BOOLEAN
  /\ TELEGRAM_CHAT_ID \in {"", "7"}
  /\ disk_ok = TRUE
  /\ OPENAI_API_KEY = TRUE
  /\ llm = "text"
  /\ post_ok = TRUE
  /\ git = "ok"
  /\ proc = NoCall
  /\ state_file \in files
  /\ cache_file = CacheAbsent
  /\ pc = "off"
  /\ state = InitialState
  /\ idle_counter = 0
  /\ last_update_id = 0
  /\ data = NoData
  /\ used_cache = FALSE
  /\ message = None
  /\ fetch_raised = FALSE
  /\ request = NoRequest(FALSE)
  /\ environ_chat_id = ""
  /\ max_live = -1
  /\ watched \in UpdateIds
  /\ watched_calls = 0
  /\ watched_stopped = FALSE
  /\ watched_skipped = FALSE
  /\ SESSION_CACHE = FreshSession
  /\ session_log = NoSessionCall
  /\ m_pc = "off"
  /\ run_mode = "continuous"
  /\ exit_status = 0
  /\ end_calls = 0
  /\ single_run = NoSingleRun
  /\ r_pc = [p \in Runs |-> "start"]
  /\ r_state = [p \in Runs |-> InitialState]
  /\ r_data = [p \in Runs |-> NoData]
  /\ r_message = [p \in Runs |-> None]

\* bot.py keeps no outbound queue and never drains one
InitWith(files) ==
  /\ InitBot(files)
  /\ outgoing = <<>>
  /\ d_pc = "idle"
  /\ attempts = 0
  /\ delivered = <<>>
  /\ queued = <<>>
  /\ transport = "reliable"
  /\ drain_caller = "drain"

\* the first run ever: ensure_files has just created the state file
Init == InitWith({InitialState})

\* main, RUN_MODE=continuous, up to the loop: lines 645-661
StartContinuous ==
  /\ pc = "off"
  /\ state_file' = IF state_file.mode = "unset"
                   THEN write_state(state_file, InitMode(state_file))
                   ELSE state_file
  /\ SESSION_CACHE' = Imported(SESSION_CACHE)
  /\ m_pc' = Enter(m_pc)
  /\ state' = state_file'
  /\ idle_counter' = 0
  /\ pc' = "loop"
  /\ last_update_id' = 0
  /\ data' = NoData
  /\ used_cache' = FALSE
  /\ message' = None
  /\ fetch_raised' = FALSE
  /\ request' = NoRequest(FALSE)
  /\ environ_chat_id' = ""
  /\ proc' = NoCall
  /\ UNCHANGED <<runvars, single_run, watched_skipped, config, drainvars,
                 parvars, cache_file, max_live, watched_calls,
                 watched_stopped>>

\* lines 664-670: reload the state, fetch live
ContinuousFetch ==
  /\ pc = "loop"
  /\ state' = state_file
  /\ Fetch(FALSE)
  /\ max_live' = IF message' # None THEN Max(max_live, message'.update_id)
                 ELSE max_live
  /\ pc' = "handle"
  /\ proc' = NoCall
  /\ UNCHANGED <<mainvars, config, drainvars, parvars, cache_file,
                 idle_counter, watched_calls, watched_stopped>>

\* lines 678-683
HandleStop ==
  /\ pc = "handle"
  /\ message # None
  /\ Command(message) \in StopCommands
  /\ idle_counter' = 0
  /\ state' = [state EXCEPT !.mode = "stopped"]
  /\ state_file' = write_state(state_file, state')
  /\ pc' = "off"
  /\ proc' = PublishOnly
  /\ m_pc' = Leave(m_pc)
  /\ UNCHANGED <<runvars, SESSION_CACHE, single_run, watched_skipped, config, drainvars, parvars, fetchvars, cache_file, max_live,
                 watched_calls, watched_stopped>>

\* lines 685-693
HandleStart ==
  /\ pc = "handle"
  /\ message # None
  /\ Command(message) \in StartCommands
  /\ idle_counter' = 0
  /\ state' = [state EXCEPT !.mode = "active"]
  /\ state_file' = write_state(state_file, state')
  /\ pc' = "loop"
  /\ proc' = PublishOnly
  /\ SESSION_CACHE' = ClearMessages(SESSION_CACHE)
  /\ UNCHANGED <<runvars, m_pc, single_run, watched_skipped, config, drainvars, parvars, fetchvars, cache_file, max_live,
                 watched_calls, watched_stopped>>

\* lines 695-708
HandleStatus ==
  /\ pc = "handle"
  /\ message # None
  /\ Command(message) = "status"
  /\ idle_counter' = 0
  /\ state' = AckStatus(state, message.update_id)
  /\ state_file' = write_state(state_file, state')
  /\ pc' = "loop"
  /\ proc' = [NoCall EXCEPT !.sends =
                <<send_telegram_message(message.chat_id, "status", 0)>>]
  /\ UNCHANGED <<mainvars, config, drainvars, parvars, fetchvars, cache_file, max_live,
                 watched_calls, watched_stopped>>

\* lines 710-714: process_message, then write_state of the dict of line 666
HandleNormal ==
  /\ pc = "handle"
  /\ message # None
  /\ Command(message) \notin StopCommands \cup StartCommands \cup {"status"}
  /\ idle_counter' = 0
  /\ IF Processes(Mode(state))
     THEN /\ watched_calls' = IF message.update_id = watched
                              THEN Min(MaxCount, watched_calls + 1)
                              ELSE watched_calls
          /\ proc' = process_message(message)
          /\ state_file' = write_state(ProcessMessageFile(state_file), state)
          /\ SESSION_CACHE' = record_session_message(SESSION_CACHE, message)
          /\ watched_skipped' = Skipped(message)
          /\ UNCHANGED watched_stopped
     ELSE /\ proc' = NoCall
          /\ watched_stopped' = (watched_stopped
                                   \/ message.update_id = watched)
          /\ UNCHANGED <<watched_calls, state_file, SESSION_CACHE,
                         watched_skipped>>
  /\ pc' = "loop"
  /\ UNCHANGED <<runvars, m_pc, single_run, config, drainvars, parvars, fetchvars, cache_file, state, max_live>>

\* lines 716-734
HandleIdle ==
  /\ pc = "handle"
  /\ message = None
  /\ idle_counter' = Min(max_idle_cycles, idle_counter + 1)
  /\ IF AutoSleep(idle_counter', Mode(state))
     THEN /\ state' = [state EXCEPT !.mode = "idle"]
          /\ state_file' = write_state(state_file, state')
          /\ proc' = PublishOnly
          /\ pc' = "off"
          /\ m_pc' = Leave(m_pc)
     ELSE /\ pc' = "loop"
          /\ proc' = NoCall
          /\ UNCHANGED <<state, state_file, m_pc>>
  /\ UNCHANGED <<runvars, SESSION_CACHE, single_run, watched_skipped, config, drainvars, parvars, fetchvars, cache_file, max_live,
                 watched_calls, watched_stopped>>

\* the process dies (the runner is killed) at any point; the files stay
Crash ==
  /\ pc \in {"loop", "handle"}
  /\ pc' = "off"
  /\ UNCHANGED <<mainvars, proc, config, drainvars, parvars, fetchvars, state_file, cache_file, state,
                 idle_counter, max_live, watched_calls, watched_stopped>>

Next ==
  \/ StartContinuous
  \/ ContinuousFetch
  \/ HandleStop
  \/ HandleStart
  \/ HandleStatus
  \/ HandleNormal
  \/ HandleIdle
  \/ Crash

Spec == Init /\ [][Next]_vars

\* the runs that are not killed: every run ends by its own break
NextLoop ==
  \/ StartContinuous
  \/ ContinuousFetch
  \/ HandleStop
  \/ HandleStart
  \/ HandleStatus
  \/ HandleNormal
  \/ HandleIdle

SpecLoop == Init /\ [][NextLoop]_vars

\* the loop is sequential code: inside a run the next step is taken; a new
\* run need not be started
SpecLoopFair ==
  /\ SpecLoop
  /\ WF_vars(ContinuousFetch)
  /\ WF_vars(HandleStop \/ HandleStart \/ HandleStatus \/ HandleNormal
               \/ HandleIdle)

\* ------------------------------------------------------------ single mode
\* a single-mode run finds the cursor and mode earlier runs left
StateFiles ==
  [last_update_id : UpdateIds, mode : Modes, last_run_time : {"t0"},
   session_keys : {FALSE}, damage : {"none"}]

InitSingle ==
  /\ InitWith(StateFiles)
  /\ watched = 0

\* the cache file is written before the run (check_updates.sh, or a test)
WriteCache ==
  /\ pc = "off"
  /\ \E c \in CacheContents : cache_file' = c
  /\ UNCHANGED <<mainvars, proc, config, drainvars, parvars, fetchvars, state_file, pc, state,
                 idle_counter, max_live, watched_calls, watched_stopped>>

\* the calls the single-mode body made so far in this run
SingleRun == IF m_pc = "off" THEN NoSingleRun ELSE single_run

Handles_always(msg) == TRUE

\* line 790: if message
Handles(msg) == msg # None

\* main, single mode: lines 779-789, skip_check from SKIP_UPDATE_CHECK
SingleFetch ==
  /\ pc = "off"
  /\ \E skip_check \in BOOLEAN : Fetch(skip_check)
  /\ pc' = "single"
  /\ proc' = NoCall
  /\ SESSION_CACHE' = Imported(SESSION_CACHE)
  /\ single_run' = [fetches |-> SingleRun.fetches + 1,
                    calls |-> SingleRun.calls]
  /\ m_pc' = Enter(m_pc)
  /\ UNCHANGED <<runvars, watched_skipped, config, drainvars, parvars, cache_file, state, idle_counter, max_live,
                 watched_calls, watched_stopped>>

\* lines 790-794
SingleHandle ==
  /\ pc = "single"
  /\ IF Handles(message)
     THEN /\ state_file' = ProcessMessageFile(state_file)
          /\ proc' = process_message(message)
          /\ SESSION_CACHE' = record_session_message(SESSION_CACHE, message)
          /\ single_run' = [single_run EXCEPT !.calls = @ + 1]
          /\ watched_skipped' = Skipped(message)
     ELSE /\ proc' = NoCall
          /\ UNCHANGED <<state_file, SESSION_CACHE, single_run,
                         watched_skipped>>
  /\ pc' = "off"
  /\ m_pc' = Leave(m_pc)
  /\ UNCHANGED <<runvars, config, drainvars, parvars, fetchvars, cache_file, state, idle_counter,
                 max_live, watched_calls, watched_stopped>>

NextSingle ==
  \/ WriteCache
  \/ SingleFetch
  \/ SingleHandle

SpecSingle == InitSingle /\ [][NextSingle]_vars

\* ------------------------------------------- runs on a damaged state file
\* lines 102-110, 207-212: what the state file can hold when something other
\* than this program wrote it, or nothing did
Damaged(f, dmg) ==
  IF dmg \in {"missing", "invalid_json"}
  THEN [InitialState EXCEPT !.damage = dmg]
  ELSE [f EXCEPT !.damage = dmg,
                 !.last_update_id = IF dmg = "true" THEN 1 ELSE 0]

\* between runs the state file is deleted, truncated, or edited
CorruptState ==
  /\ pc = "off"
  /\ \E dmg \in Damages \ {"none"} : state_file' = Damaged(state_file, dmg)
  /\ UNCHANGED <<mainvars, proc, config, drainvars, parvars, fetchvars, cache_file, pc, state,
                 idle_counter, max_live, watched_calls, watched_stopped>>

\* between runs the state file gets messages_processed_this_session and
\* session_start, as a version that stored the session counters left them
LegacyState ==
  /\ pc = "off"
  /\ state_file.damage \notin {"missing", "invalid_json"}
  /\ ~state_file.session_keys
  /\ state_file' = [state_file EXCEPT !.session_keys = TRUE]
  /\ UNCHANGED <<mainvars, proc, config, drainvars, parvars, fetchvars, cache_file, pc, state,
                 idle_counter, max_live, watched_calls, watched_stopped>>

\* lines 93-99: ensure_files creates the state file when there is none
EnsureFiles ==
  /\ pc = "off"
  /\ state_file.damage = "missing"
  /\ state_file' = write_state(state_file, InitialState)
  /\ UNCHANGED <<mainvars, proc, config, drainvars, parvars, fetchvars, cache_file, pc, state,
                 idle_counter, max_live, watched_calls, watched_stopped>>

NextLoad ==
  \/ CorruptState
  \/ EnsureFiles
  \/ SingleFetch
  \/ SingleHandle

SpecLoad == InitSingle /\ [][NextLoad]_vars

\* --------------------- continuous runs on a state file with session keys
NextLegacy ==
  \/ LegacyState
  \/ Next

SpecLegacy == Init /\ [][NextLegacy]_vars

\* ------------------------------------------- runs on a disk that can fail
\* lines 113-118: between runs the disk starts or stops refusing writes
DiskFault ==
  /\ pc = "off"
  /\ disk_ok' = ~disk_ok
  /\ UNCHANGED <<mainvars, TELEGRAM_TOKEN, TELEGRAM_CHAT_ID, OPENAI_API_KEY, llm,
                 post_ok, git, watched, drainvars, parvars, fetchvars, proc,
                 state_file, cache_file, pc, state, idle_counter, max_live,
                 watched_calls, watched_stopped>>

NextDisk ==
  \/ DiskFault
  \/ SingleFetch
  \/ SingleHandle

SpecDisk == InitSingle /\ [][NextDisk]_vars

\* ---------------------------------- runs with failing downstream services
\* between runs the key, the LLM service, the Telegram sendMessage endpoint
\* and git change their behaviour
Environment ==
  /\ pc = "off"
  /\ OPENAI_API_KEY' \in BOOLEAN
  /\ llm' \in LlmOutcomes
  /\ post_ok' \in BOOLEAN
  /\ git' \in GitOutcomes
  /\ <<OPENAI_API_KEY', llm', post_ok', git'>>
       # <<OPENAI_API_KEY, llm, post_ok, git>>
  /\ UNCHANGED <<mainvars, TELEGRAM_TOKEN, TELEGRAM_CHAT_ID, disk_ok, watched,
                 drainvars, parvars, fetchvars, proc, state_file, cache_file,
                 pc, state, idle_counter, max_live, watched_calls, watched_stopped>>

InitProcess ==
  /\ Init
  /\ watched = 0

NextProcess ==
  \/ Environment
  \/ SingleFetch
  \/ SingleHandle

SpecProcess == InitProcess /\ [][NextProcess]_vars

\* ------------------------------------------------------ Ctrl+C in the loop
\* lines 745-749: KeyboardInterrupt inside the try of continuous_mode; the
\* state is re-read, marked stopped, written and published
KeyboardInterrupt ==
  /\ pc \in {"loop", "handle"}
  /\ state_file' = write_state(state_file,
                     [read_json(state_file, EmptyState)
                        EXCEPT !.mode = "stopped"])
  /\ pc' = "off"
  /\ proc' = PublishOnly
  /\ m_pc' = Leave(m_pc)
  /\ UNCHANGED <<runvars, SESSION_CACHE, single_run, watched_skipped, config,
                 drainvars, parvars, fetchvars, cache_file, state,
                 idle_counter, max_live, watched_calls, watched_stopped>>

NextInterrupt ==
  \/ NextLoop
  \/ KeyboardInterrupt

SpecInterrupt == Init /\ [][NextInterrupt]_vars

\* ------------------------------------- runs with and without an OpenAI key
\* between runs the key is added to or taken from the environment
KeyChange ==
  /\ pc = "off"
  /\ OPENAI_API_KEY' = ~OPENAI_API_KEY
  /\ UNCHANGED <<TELEGRAM_TOKEN, TELEGRAM_CHAT_ID, disk_ok, llm, post_ok, git,
                 watched, mainvars, botvars_but_config, drainvars>>

InitKey ==
  /\ Init
  /\ TELEGRAM_TOKEN
  /\ TELEGRAM_CHAT_ID = "7"

NextKey ==
  \/ KeyChange
  \/ NextLoop

SpecKey == InitKey /\ [][NextKey]_vars

\* ------------------------------------------- what the completion holds
\* between runs the completion service changes what it answers
Completion ==
  /\ pc = "off"
  /\ llm' \in Completions \ {llm}
  /\ UNCHANGED <<TELEGRAM_TOKEN, TELEGRAM_CHAT_ID, disk_ok, OPENAI_API_KEY,
                 post_ok, git, watched, mainvars, botvars_but_config,
                 drainvars>>

NextParse ==
  \/ Completion
  \/ SingleFetch
  \/ SingleHandle

SpecParse == InitProcess /\ [][NextParse]_vars

\* ------------------------------------ start_session and end_session calls
SessionMessages == {[None EXCEPT !.message_id = i] : i \in 1..(MaxId + 1)}

CallStartSession ==
  /\ SESSION_CACHE' = start_session(SESSION_CACHE)
  /\ session_log' = LogStart(session_log, SESSION_CACHE)
  /\ UNCHANGED <<run_mode, exit_status, end_calls, m_pc, single_run,
                 watched_skipped, botvars, drainvars>>

CallEndSession ==
  /\ SESSION_CACHE' = end_session(SESSION_CACHE)
  /\ session_log' = LogEnd(session_log, SESSION_CACHE)
  /\ UNCHANGED <<run_mode, exit_status, end_calls, m_pc, single_run,
                 watched_skipped, botvars, drainvars>>

CallRecord ==
  /\ \E m \in SessionMessages :
       SESSION_CACHE' = record_session_message(SESSION_CACHE, m)
  /\ UNCHANGED <<runvars, m_pc, single_run, watched_skipped, botvars,
                 drainvars>>

NextSession ==
  \/ CallStartSession
  \/ CallEndSession
  \/ CallRecord

SpecSession == Init /\ [][NextSession]_vars

\* -------------------------------------------------------------------- main
\* line 776: RUN_MODE, lower-cased, is "continuous" or anything else
RunModes == {"continuous", "single"}

AfterFatal_exit == "off"

\* lines 796-804: sys.exit(1) raises SystemExit through the finally clause
AfterFatal == "finally"

\* lines 764-768: a new process runs main up to its try
MainStart ==
  /\ m_pc = "off"
  /\ pc = "off"
  /\ \E mode \in RunModes : run_mode' = mode
  /\ SESSION_CACHE' = start_session(FreshSession)
  /\ session_log' = LogStart(session_log, FreshSession)
  /\ exit_status' = 0
  /\ end_calls' = 0
  /\ single_run' = NoSingleRun
  /\ m_pc' = "try"
  /\ UNCHANGED <<watched_skipped, botvars, drainvars>>

\* lines 771-772 and 796-799: ensure_directories and ensure_files create
\* what is missing, or one of them raises (mkdir, write_text) and main logs
\* the error and exits with status 1
MainEnsure ==
  /\ m_pc = "try"
  /\ \E created \in BOOLEAN :
       IF created
       THEN /\ state_file' = IF state_file.damage = "missing"
                             THEN write_state(state_file, InitialState)
                             ELSE state_file
            /\ m_pc' = "mode"
            /\ UNCHANGED exit_status
       ELSE /\ m_pc' = AfterFatal
            /\ exit_status' = 1
            /\ UNCHANGED state_file
  /\ UNCHANGED <<session_log, run_mode, end_calls, SESSION_CACHE, single_run,
                 watched_skipped, config, parvars, fetchvars, proc,
                 cache_file, pc, state, idle_counter, max_live, watched_calls,
                 watched_stopped, drainvars>>

\* lines 802-804: the finally clause
MainFinally ==
  /\ m_pc = "finally"
  /\ SESSION_CACHE' = end_session(SESSION_CACHE)
  /\ session_log' = LogEnd(session_log, SESSION_CACHE)
  /\ end_calls' = end_calls + 1
  /\ m_pc' = "off"
  /\ UNCHANGED <<run_mode, exit_status, single_run, watched_skipped, botvars,
                 drainvars>>

\* lines 778-779
MainContinuous ==
  /\ m_pc = "mode"
  /\ run_mode = "continuous"
  /\ StartContinuous

\* lines 780-789
MainSingle ==
  /\ m_pc = "mode"
  /\ run_mode # "continuous"
  /\ SingleFetch

NextMain ==
  \/ MainStart
  \/ MainEnsure
  \/ MainContinuous
  \/ ContinuousFetch
  \/ HandleStop
  \/ HandleStart
  \/ HandleStatus
  \/ HandleNormal
  \/ HandleIdle
  \/ KeyboardInterrupt
  \/ MainSingle
  \/ SingleHandle
  \/ MainFinally

InitMain ==
  /\ Init
  /\ watched = 0

SpecMain == InitMain /\ [][NextMain]_vars

\* ------------------------------------------------ outbound drain loop
\* OutboundMessage {chat_id, text, reply_to_message_id}
OutboundMessages ==
  [chat_id : {"7"}, text : {"a", "b"}, reply_to : {0}]

\* the queues of at most n items
RECURSIVE QueuesUpTo(_)
QueuesUpTo(n) ==
  IF n = 0 THEN {<<>>}
  ELSE LET shorter == QueuesUpTo(n - 1)
       IN  shorter \cup {Append(q, m) : q \in {r \in shorter : Len(r) = n - 1},
                                        m \in OutboundMessages}

Transports == {"reliable", "flaky", "dead"}

\* what sendMessage can answer
SendOutcomes(t) ==
  IF t = "reliable" THEN {TRUE}
  ELSE IF t = "dead" THEN {FALSE}
  ELSE BOOLEAN

\* drain(queue) stops its pass at the first failed send; the loop of the
\* tests calls send_outgoing_messages again whatever the last call did
DrainCallers == {"drain", "test_loop"}

NextAttempt_wrap(a) == (a + 1) % max_attempts

\* attempts += 1
NextAttempt(a) == a + 1

Pop_newest(q) == [item |-> q[Len(q)], rest |-> SubSeq(q, 1, Len(q) - 1)]

\* pop the oldest item
Pop(q) == [item |-> Head(q), rest |-> Tail(q)]

\* on failure the item is reinserted at the front
Reinsert(item, q) == <<item>> \o q

InitDrain ==
  /\ InitBot({InitialState})
  /\ TELEGRAM_TOKEN
  /\ TELEGRAM_CHAT_ID = "7"
  /\ watched = 0
  /\ outgoing \in QueuesUpTo(MaxQueue)
  /\ d_pc = "idle"
  /\ attempts = 0
  /\ delivered = <<>>
  /\ queued = <<>>
  /\ transport \in Transports
  /\ drain_caller \in DrainCallers

\* a drain pass begins: the first one, or the next one on what is left
DrainStart ==
  /\ d_pc = "idle" \/ (d_pc = "done" /\ outgoing # <<>>)
  /\ d_pc' = "draining"
  /\ attempts' = 0
  /\ delivered' = <<>>
  /\ queued' = outgoing
  /\ UNCHANGED <<mainvars, botvars, outgoing, transport, drain_caller>>

\* one turn of the loop: pop the oldest item and attempt its delivery
DrainAttempt ==
  /\ d_pc = "draining"
  /\ outgoing # <<>>
  /\ attempts < max_attempts
  /\ attempts' = NextAttempt(attempts)
  /\ \E ok \in SendOutcomes(transport) :
       LET popped == Pop(outgoing)
       IN  IF ok
           THEN /\ outgoing' = popped.rest
                /\ delivered' = Append(delivered, popped.item)
                /\ d_pc' = "draining"
           ELSE /\ outgoing' = Reinsert(popped.item, popped.rest)
                /\ delivered' = delivered
                /\ d_pc' = IF drain_caller = "drain" THEN "done"
                           ELSE "draining"
  /\ UNCHANGED <<mainvars, botvars, queued, transport, drain_caller>>

\* the loop condition fails: the queue is empty or the budget is spent
DrainEnd ==
  /\ d_pc = "draining"
  /\ outgoing = <<>> \/ attempts >= max_attempts
  /\ d_pc' = "done"
  /\ UNCHANGED <<mainvars, botvars, outgoing, attempts, delivered, queued, transport,
                 drain_caller>>

NextDrain ==
  \/ DrainStart
  \/ DrainAttempt
  \/ DrainEnd

SpecDrain == InitDrain /\ [][NextDrain]_vars

\* the loop is sequential code: a turn that can be taken is taken
SpecDrainFair ==
  /\ SpecDrain
  /\ WF_vars(DrainAttempt)
  /\ WF_vars(DrainEnd)

\* ------------------------------------------------- two concurrent runs
\* two runs started together (two workflow runs), each doing one live fetch
\* on the same state file, no lock; steps are the file read, the HTTP call
\* and the decision with its file write
InitPar ==
  /\ Init
  /\ TELEGRAM_TOKEN
  /\ watched = 0

\* lines 206-212
ParRead(p) ==
  /\ r_pc[p] = "start"
  /\ r_state' = [r_state EXCEPT ![p] = state_file]
  /\ r_pc' = [r_pc EXCEPT ![p] = "read"]
  /\ UNCHANGED <<mainvars, proc, config, drainvars, fetchvars, state_file, cache_file, pc, state,
                 idle_counter, max_live, watched_calls, watched_stopped, r_data, r_message>>

\* the transport holds one update per update_id: a call that yields the
\* update_id another run was given yields the same update
SameTransport(p, d) ==
  \A q \in Runs \ {p} :
    (d.result # <<>> /\ r_data[q].result # <<>>
      /\ d.result[1].update_id = r_data[q].result[1].update_id)
    => d = r_data[q]

\* lines 236-246
ParGetUpdates(p) ==
  /\ r_pc[p] = "read"
  /\ \E d \in LiveResponses(r_state[p].last_update_id + 1) :
       /\ SameTransport(p, d)
       /\ r_data' = [r_data EXCEPT ![p] = d]
  /\ r_pc' = [r_pc EXCEPT ![p] = "got"]
  /\ UNCHANGED <<mainvars, proc, config, drainvars, fetchvars, state_file, cache_file, pc, state,
                 idle_counter, max_live, watched_calls, watched_stopped, r_state, r_message>>

\* lines 248-300
ParDecide(p) ==
  /\ r_pc[p] = "got"
  /\ LET out == Decide(r_state[p], r_data[p], FALSE)
     IN  /\ r_message' = [r_message EXCEPT ![p] = out.message]
         /\ state_file' = IF out.wrote
                          THEN write_state(state_file, out.state)
                          ELSE state_file
  /\ r_pc' = [r_pc EXCEPT ![p] = "done"]
  /\ UNCHANGED <<mainvars, proc, config, drainvars, fetchvars, cache_file, pc, state, idle_counter,
                 max_live, watched_calls, watched_stopped, r_state, r_data>>

NextPar ==
  \/ \E p \in Runs : ParRead(p)
  \/ \E p \in Runs : ParGetUpdates(p)
  \/ \E p \in Runs : ParDecide(p)

SpecPar == InitPar /\ [][NextPar]_vars

\* ================================================================ claims
\* fetch_new_messages has just returned to its caller
Returned == pc \in {"handle", "single"}

\* the last fetch decoded a response that carries an update
HasUpdate == data.status = "ok" /\ data.result # <<>>

\* C1: a live fetch never returns a message whose update_id is <= the
\* update_id of a message an earlier live fetch returned (same run or after
\* a restart), the transport answering only with update_id >= offset.
C1_NoRedelivery ==
  [][(pc = "loop" /\ pc' = "handle" /\ message' # None)
       => message'.update_id > max_live]_vars

\* C2: no call of fetch_new_messages, live or cached, lowers the persisted
\* last_update_id.
C2_FetchNeverLowersCursor ==
  [][(pc = "off" /\ pc' = "single")
       => state_file.last_update_id <= state_file'.last_update_id]_vars

\* C3: when fetch_new_messages returns a message with update_id U, the state
\* file already holds last_update_id = U, before any processing of it.
C3_AdvanceBeforeReturn ==
  (Returned /\ message # None)
    => state_file.last_update_id = message.update_id

C3_Witness ==
  /\ pc = "single"
  /\ message # None
  /\ last_update_id < message.update_id
  /\ state_file.last_update_id = message.update_id

\* C4: two runs racing on the same state file and transport never both
\* accept a message with the same update_id.
C4_NoDoubleAcceptance ==
  ~ /\ r_message[1] # None
    /\ r_message[2] # None
    /\ r_message[1].update_id = r_message[2].update_id

\* C5: in continuous mode process_message is invoked at most once for any
\* update_id, over all iterations and restarts.
C5_ProcessedAtMostOnce == watched_calls <= 1

\* C6: in continuous mode the persisted last_update_id never decreases,
\* whatever a loop iteration does.
C6_LoopNeverLowersCursor ==
  [][(pc \in {"loop", "handle"})
       => state_file.last_update_id <= state_file'.last_update_id]_vars

\* C7: with an allowed chat configured, a live fetch whose update comes from
\* another chat returns nothing and persists that update's update_id, and a
\* live fetch never returns a message from another chat.
C7_ForeignChatSkipped ==
  (Returned /\ ~used_cache /\ TELEGRAM_CHAT_ID # "")
    => /\ message # None => message.chat_id = TELEGRAM_CHAT_ID
       /\ (HasUpdate /\ Str(data.result[1].chat) # TELEGRAM_CHAT_ID)
            => /\ message = None
               /\ state_file.last_update_id = data.result[1].update_id

C7_Witness ==
  /\ pc = "handle"
  /\ ~used_cache
  /\ TELEGRAM_CHAT_ID = "7"
  /\ HasUpdate
  /\ data.result[1].chat = 8
  /\ data.result[1].text # ""
  /\ message = None
  /\ last_update_id < data.result[1].update_id
  /\ state_file.last_update_id = data.result[1].update_id

\* C8: with an allowed chat configured, a fetch from the cached batch never
\* returns a message of another chat.
C8_CachedAllowList ==
  (pc = "single" /\ used_cache /\ TELEGRAM_CHAT_ID # "" /\ message # None)
    => message.chat_id = TELEGRAM_CHAT_ID

\* C9: a fetch from the cached batch never returns a message whose update_id
\* is <= the persisted cursor at the time of the call.
C9_CachedAboveCursor ==
  (pc = "single" /\ used_cache /\ message # None)
    => message.update_id > last_update_id

\* C10: an update of the allowed chat without text is skipped: nothing is
\* returned and the persisted cursor becomes its update_id.
C10_NonTextSkipped ==
  (Returned /\ HasUpdate /\ TELEGRAM_CHAT_ID # ""
     /\ Str(data.result[1].chat) = TELEGRAM_CHAT_ID
     /\ data.result[1].text = "")
    => /\ message = None
       /\ state_file.last_update_id = data.result[1].update_id

C10_Witness ==
  /\ pc = "single"
  /\ HasUpdate
  /\ TELEGRAM_CHAT_ID = "7"
  /\ data.result[1].chat = 7
  /\ data.result[1].text = ""
  /\ message = None
  /\ last_update_id # data.result[1].update_id
  /\ state_file.last_update_id = data.result[1].update_id


\* one whole call of fetch_new_messages, of either run mode
FetchStep ==
  \/ (pc = "off" /\ pc' = "single")
  \/ (pc = "loop" /\ pc' = "handle")

\* C11: a fetch whose response is ok with an empty result returns no message
\* and leaves the whole state file as it was
C11_EmptyResultNoChange ==
  [][(FetchStep /\ data'.status = "ok" /\ data'.result = <<>>)
       => (message' = None /\ state_file' = state_file)]_vars

C11_Witness ==
  /\ pc = "handle"
  /\ data.status = "ok" /\ data.result = <<>>
  /\ message = None
  /\ state_file.last_update_id > 0

\* C12: a fetch whose transport failed (exception, timeout, non-2xx status,
\* ok = false) raises nothing, returns no message and leaves the cursor, so
\* the next fetch asks for the same offset
C12_TransportErrorNotFatal ==
  (Returned /\ data.status \in {"exception", "not_ok"})
    => /\ ~fetch_raised
       /\ message = None
       /\ state_file.last_update_id = last_update_id

C12_Witness ==
  /\ pc = "handle"
  /\ data.status = "exception"
  /\ ~fetch_raised
  /\ message = None
  /\ last_update_id > 0
  /\ state_file.last_update_id = last_update_id

\* C13: a fetch on a state file that is missing, is not JSON, or holds a
\* last_update_id that is not an integer raises nothing and uses cursor 0
C13_BadStateLoadsZero ==
  [][(FetchStep /\ state_file.damage # "none")
       => (~fetch_raised' /\ last_update_id' = 0)]_vars

\* C14: also when the state file cannot be written, a fetch returns a message
\* only if the state file holds its update_id on return
C14_ReturnedOnlyIfPersisted ==
  [][(FetchStep /\ message' # None)
       => state_file'.last_update_id = message'.update_id]_vars

\* one whole call of process_message from main
ProcessStep == pc = "single" /\ pc' = "off" /\ message # None

\* C15: process_message, on its success path and on its exception path,
\* leaves the persisted last_update_id as it was
C15_ProcessKeepsCursor ==
  [][ProcessStep
       => state_file'.last_update_id = state_file.last_update_id]_vars

C15_Witness ==
  /\ pc = "off"
  /\ proc.path = "error"
  /\ state_file.last_run_time = "t1"
  /\ message.update_id > 0
  /\ state_file.last_update_id = message.update_id

\* C16: when the LLM call raises, process_message logs the error, sends the
\* failure text to the chat of the message as a reply to it, and does not
\* raise
C16_FailureReported ==
  [][(ProcessStep /\ OPENAI_API_KEY /\ llm = "raises")
       => /\ proc'.logged
          /\ ~proc'.raised
          /\ \E i \in DOMAIN proc'.sends :
               /\ proc'.sends[i].kind = "failure"
               /\ proc'.sends[i].posted
               /\ proc'.sends[i].chat_id = message.chat_id
               /\ proc'.sends[i].reply_to = message.message_id]_vars

C16_Witness ==
  /\ pc = "off"
  /\ proc.path = "error"
  /\ proc.logged
  /\ ~proc.raised
  /\ proc.sends # <<>>
  /\ proc.sends[1].kind = "failure"
  /\ proc.sends[1].reply_to = message.message_id
  /\ ~proc.sends[1].delivered

\* C17: a failing publish (no git, timeout, failing command) makes
\* git_commit_push return False without raising, process_message returns
\* normally, and one message gets at most one publish attempt
C17_PublishFailureNotFatal ==
  [][ProcessStep
       => /\ ~proc'.raised
          /\ proc'.publishes <= 1
          /\ (git \in {"unavailable", "timeout", "fails"}
                => ~proc'.published)]_vars

C17_Witness ==
  /\ pc = "off"
  /\ proc.called
  /\ git = "timeout"
  /\ proc.publishes = 1
  /\ ~proc.published
  /\ ~proc.raised

\* C18: whatever the state dict handed to write_state holds, the state file
\* the program writes has neither messages_processed_this_session nor
\* session_start
C18_SessionKeysNotPersisted ==
  [][(pc' # pc /\ state_file' # state_file)
       => ~state_file'.session_keys]_vars

C18_Witness ==
  /\ pc = "handle"
  /\ message # None
  /\ state.session_keys
  /\ ~state_file.session_keys

\* a drain pass over a transport that always succeeds has ended
DrainedReliably == d_pc = "done" /\ transport = "reliable"

C20_FailedReplyQueued ==
  [][(ProcessStep /\ OPENAI_API_KEY /\ llm = "text" /\ ~post_ok)
       => /\ outgoing' # <<>>
          /\ Head(outgoing').chat_id = message.chat_id
          /\ Head(outgoing').reply_to = message.message_id]_vars

C22_OneItemFromCursorPlusOne ==
  [][(FetchStep /\ request'.sent)
       => /\ request'.offset = state_file.last_update_id + 1
          /\ request'.limit = 1
          /\ message' # None
               => /\ Len(data'.result) = 1
                  /\ message'.update_id = data'.result[1].update_id]_vars

C22_Witness ==
  /\ pc = "handle"
  /\ request.sent
  /\ last_update_id > 0
  /\ request.offset = last_update_id + 1
  /\ message # None
  /\ message.update_id >= request.offset

\* C23: a fetch told to use the cache, on a readable cache whose first
\* update has a text, makes no getUpdates call, returns that update
\* (update_id, text, chat id as a string) and persists its update_id,
\* whatever the token and the allowed chat are
C23_CachedNeedsNoCredentials ==
  [][(/\ FetchStep
      /\ request'.use_cached
      /\ cache_file.status = "ok"
      /\ cache_file.result # <<>>
      /\ cache_file.result[1].text # "")
       => LET u == cache_file.result[1]
          IN  /\ ~request'.sent
              /\ message' # None
              /\ message'.update_id = u.update_id
              /\ message'.text = u.text
              /\ message'.chat_id = Str(u.chat)
              /\ state_file'.last_update_id = u.update_id]_vars

C23_Witness ==
  /\ pc = "single"
  /\ used_cache
  /\ ~TELEGRAM_TOKEN
  /\ TELEGRAM_CHAT_ID = ""
  /\ ~request.sent
  /\ message # None
  /\ message.chat_id = "8"
  /\ message.update_id > 0
  /\ state_file.last_update_id = message.update_id

\* C24: with no TELEGRAM_CHAT_ID a live fetch accepts a text update of any
\* chat, puts that chat id in os.environ only and leaves TELEGRAM_CHAT_ID
\* unset, in the first fetch of a run and in every later one
C24_AnyChatWhenUnset ==
  [][(/\ FetchStep
      /\ request'.sent
      /\ TELEGRAM_CHAT_ID = ""
      /\ HasUpdate'
      /\ data'.result[1].text # "")
       => LET chat_id == Str(data'.result[1].chat)
          IN  /\ message' # None
              /\ message'.chat_id = chat_id
              /\ chat_id # "" => environ_chat_id' = chat_id
              /\ TELEGRAM_CHAT_ID' = ""]_vars

C24_Witness ==
  /\ pc = "handle"
  /\ TELEGRAM_CHAT_ID = ""
  /\ request.sent
  /\ last_update_id > 0
  /\ message # None
  /\ message.chat_id = "8"
  /\ environ_chat_id = "8"

\* C25: a fetch told to use the cache, with the cache file missing or
\* unreadable, goes to the live API; with no token it makes no getUpdates
\* call, returns nothing and leaves the state file as it was
C25_CacheFallback ==
  [][(/\ FetchStep
      /\ request'.use_cached
      /\ cache_file.status \in {"absent", "unreadable"})
       => /\ ~used_cache'
          /\ TELEGRAM_TOKEN => request'.sent
          /\ ~TELEGRAM_TOKEN
               => /\ ~request'.sent
                  /\ message' = None
                  /\ state_file' = state_file]_vars

C25_Witness ==
  /\ pc = "single"
  /\ request.use_cached
  /\ cache_file.status = "unreadable"
  /\ ~TELEGRAM_TOKEN
  /\ ~request.sent
  /\ ~used_cache
  /\ message = None
  /\ state_file.last_update_id > 0

\* the fetch of this iteration returned a message whose lower-cased, trimmed
\* text is a stop command, a start command, the status command, or none
IsStop(m) == LowerStrip(m.text) \in {"stop", "sleep", "pause"}
IsStart(m) == LowerStrip(m.text) \in {"start", "wake up", "wake"}
IsStatus(m) == LowerStrip(m.text) = "status"
IsNormal(m) == ~IsStop(m) /\ ~IsStart(m) /\ ~IsStatus(m)

\* C26: in continuous mode a stop, sleep or pause command sets the
\* persisted mode to stopped and ends the loop in the iteration that
\* fetched it, and process_message is not called for it
C26_StopEndsLoop ==
  [][(pc = "handle" /\ message # None /\ IsStop(message))
       => /\ state_file'.mode = "stopped"
          /\ pc' = "off"
          /\ ~proc'.called]_vars

C26_Witness ==
  /\ pc = "off"
  /\ message # None
  /\ message.text = " Stop"
  /\ state_file.mode = "stopped"
  /\ ~proc.called
  /\ proc.publishes = 1

\* C27: every accepted message resets the idle counter, every fetch that
\* returned nothing adds one to it, and the loop auto-sleeps (mode idle
\* persisted, loop left) exactly in the iteration that brings the counter
\* to max_idle_cycles while the mode is active
C27_IdleCounter ==
  [][(pc = "handle")
       => /\ message # None => idle_counter' = 0
          /\ (message = None /\ idle_counter < max_idle_cycles)
               => idle_counter' = idle_counter + 1
          /\ message = None
               => ((pc' = "off" /\ state_file'.mode = "idle")
                    <=> (/\ idle_counter + 1 >= max_idle_cycles
                         /\ state_file.mode = "active"))]_vars

C27_Witness ==
  /\ pc = "off"
  /\ message = None
  /\ idle_counter = max_idle_cycles
  /\ state_file.mode = "idle"
  /\ proc.publishes = 1

\* C28: from every persisted mode, a loop that is running either accepts a
\* message at some later fetch or ends
C28_EventuallySleeps ==
  (pc = "loop") ~> (pc = "off" \/ (pc = "handle" /\ message # None))

\* C29: while the persisted mode is stopped a normal message is not handed
\* to process_message and is not handed to it later either; only a start
\* command takes the mode from stopped, to active; a normal message
\* fetched in another mode is processed
C29_StoppedIgnoresNormal ==
  [][(pc = "handle")
       => /\ (message # None /\ IsNormal(message)
                /\ state_file.mode = "stopped")
               => (~proc'.called /\ state_file' = state_file)
          /\ (message # None /\ IsNormal(message)
                /\ state_file.mode # "stopped")
               => proc'.called
          /\ (proc'.called /\ message.update_id = watched)
               => ~watched_stopped
          /\ (state_file.mode = "stopped" /\ state_file'.mode # "stopped")
               => (/\ message # None
                   /\ IsStart(message)
                   /\ state_file'.mode = "active")]_vars

C29_Witness ==
  /\ pc = "loop"
  /\ watched_stopped
  /\ state_file.mode = "active"
  /\ proc.called
  /\ message.update_id > watched

\* C30: a status command gets one status message, sent to its chat, is not
\* handed to process_message, leaves the persisted mode as it was and the
\* persisted cursor at its update_id, and the loop goes on
C30_StatusAnswered ==
  [][(pc = "handle" /\ message # None /\ IsStatus(message))
       => /\ Len(proc'.sends) = 1
          /\ proc'.sends[1].kind = "status"
          /\ proc'.sends[1].chat_id = message.chat_id
          /\ proc'.sends[1].posted
          /\ ~proc'.called
          /\ state_file'.mode = state_file.mode
          /\ state_file'.last_update_id = message.update_id
          /\ pc' = "loop"]_vars

C30_Witness ==
  /\ pc = "loop"
  /\ message # None
  /\ message.text = "status"
  /\ Len(proc.sends) = 1
  /\ state_file.mode = "stopped"
  /\ message.update_id > 1
  /\ state_file.last_update_id = message.update_id

PersistedModes == {"active", "idle", "stopped"}

\* C31: while continuous_mode runs the persisted mode is active, idle or
\* stopped, and once it is one of the three every step of the loop, Ctrl+C
\* included, leaves it one of the three
C31_ModeIsOneOfThree ==
  [][/\ pc' # "off" => state_file'.mode \in PersistedModes
     /\ state_file.mode \in PersistedModes
          => state_file'.mode \in PersistedModes]_vars

C31_Witness ==
  /\ pc = "off"
  /\ state_file.mode = "stopped"
  /\ message # None
  /\ message.text = "hi"
  /\ proc = PublishOnly

\* the step is a call of start_session or of end_session
SessionCall == session_log'.tick # session_log.tick

\* C32: start_session called again before end_session sends no notice,
\* end_session called again before start_session sends no notice, and a
\* stop notice is sent only when start_session was called since the last
\* end_session
C32_NoticesOnce ==
  [][SessionCall
       => /\ (session_log'.call = "start" /\ session_log.began)
               => session_log'.notice = "none"
          /\ (session_log'.call = "end" /\ session_log.ended)
               => session_log'.notice = "none"
          /\ session_log'.notice = "stop" => session_log.began]_vars

C32_Witness ==
  /\ CanNotify
  /\ session_log.call = "start"
  /\ session_log.notice = "none"
  /\ SESSION_CACHE.start_notified
  /\ SESSION_CACHE.messages > 0

\* C33: when a run of main ends, end_session was called once in it, and
\* it was the last thing the run did
C33_EndSessionOnce ==
  [][/\ end_calls' <= 1
     /\ (m_pc # "off" /\ m_pc' = "off")
          => (end_calls' = 1 /\ SessionCall
               /\ session_log'.call = "end")]_vars

C33_Witness ==
  /\ m_pc = "off"
  /\ exit_status = 1
  /\ end_calls = 1
  /\ session_log.call = "end"
  /\ session_log.notice = "stop"

\* C34: a single-mode run of main fetches once and calls process_message
\* once when the fetch returned a message, and not at all when it did not
C34_SingleRunOneFetch ==
  (run_mode = "single" /\ m_pc # "off")
    => /\ single_run.fetches <= 1
       /\ single_run.calls <= 1
       /\ (m_pc = "finally" /\ exit_status = 0)
            => /\ single_run.fetches = 1
               /\ single_run.calls = IF message # None THEN 1 ELSE 0
               /\ proc.called = (message # None)

C34_Witness ==
  /\ run_mode = "single"
  /\ m_pc = "finally"
  /\ single_run = [fetches |-> 1, calls |-> 1]
  /\ message # None
  /\ proc.called

\* C35: with an OpenAI key, process_message calls send_telegram_message
\* once for the message: with the reply when the completion call returned,
\* with the failure text when it raised
C35_OneMessagePerCall ==
  [][(ProcessStep /\ OPENAI_API_KEY)
       => /\ Len(proc'.sends) = 1
          /\ proc'.sends[1].chat_id = message.chat_id
          /\ proc'.sends[1].reply_to = message.message_id
          /\ proc'.sends[1].kind
               = IF llm = "raises" THEN "failure" ELSE "reply"]_vars

C35_Witness ==
  /\ pc = "off"
  /\ OPENAI_API_KEY
  /\ llm = "actions"
  /\ proc.path = "success"
  /\ proc.handled
  /\ Len(proc.sends) = 1
  /\ proc.sends[1].kind = "reply"

\* C36: when the action block of the completion is malformed, the parse
\* error is logged, handle_actions is not called, the reply is sent, the
\* state is stamped and the work published, and nothing is raised
C36_MalformedBlockLogged ==
  [][(ProcessStep /\ OPENAI_API_KEY /\ llm \in {"malformed", "unmatched"})
       => /\ proc'.logged
          /\ ~proc'.handled
          /\ Len(proc'.sends) = 1
          /\ proc'.sends[1].kind = "reply"
          /\ state_file'.last_run_time = "t1"
          /\ proc'.publishes = 1
          /\ ~proc'.raised]_vars

\* C37: without an OpenAI key, process_message records the message in the
\* session cache, sends nothing, leaves the state file alone and publishes
\* nothing; a message it got that way gets no reply later
C37_SkippedNeverAnswered ==
  [][/\ (pc = "handle" /\ proc'.called /\ ~OPENAI_API_KEY)
          => /\ SESSION_CACHE'.messages
                  = Min(MaxCount, SESSION_CACHE.messages + 1)
             /\ proc'.sends = <<>>
             /\ proc'.publishes = 0
             /\ ProcessMessageFile(state_file) = state_file
     /\ (pc = "handle" /\ watched_skipped /\ message.update_id = watched
           /\ IsNormal(message))
          => proc'.sends = <<>>]_vars

============================================================================
